---- MODULE Spec2Model ----
(***************************************************************************)
(* A model of cr_trichome's plotting pipeline (python/cr_trichome/plot.py):*)
(* output discovery (get_last_output_path, get_all_iterations), the        *)
(* per-iteration renderer (plot_cells, plot_cells_at_iter) and the         *)
(* parallel driver (plot_cells_at_all_iterations over multiprocessing's    *)
(* Pool.imap).                                                             *)
(*                                                                         *)
(* Strings and paths are sequences of code points, so that sorting,        *)
(* integer parsing and "{:020}" formatting are computed, not assumed.      *)
(***************************************************************************)
EXTENDS Integers, Sequences, FiniteSets, TLC

\* ------------------------------------------------------------- bounds
\* Largest iteration number that has a directory under cells/json.
MaxIter == 2
\* Most directories under cells/json.
MaxDirs == 3
\* Most iteration directories that hold no usable shard.
MaxBad == 1
\* Most snapshot files present before the first call.
MaxPre == 1
\* Worker processes of the pool.
NumWorkers == 2
\* Most direct calls of plot_cells_at_iter in a sequential session.
MaxCalls == 2
\* Most cells of a table handed to plot_cells.
MaxCells == 2
\* Largest intracellular[2] value, in tenths.
MaxT == 41
\* Longest name of an entry of the search directory.
MaxNameLen == 2
\* Most entries of the search directory.
MaxEntries == 2

\* Largest iteration number that also has an unpadded directory name.
MaxAlias == 1

\* Width of the zero padding in "{:020}".
PadWidth == 20

\* ------------------------------------------------------------ strings
\* "out/cr_trichome", the default of get_last_output_path's search_path
SearchPath == <<111, 117, 116, 47, 99, 114, 95, 116, 114, 105, 99, 104, 111, 109, 101>>
\* "images"
ImagesStr == <<105, 109, 97, 103, 101, 115>>
\* "frames", a save_path a caller supplies
FramesStr == <<102, 114, 97, 109, 101, 115>>
\* "snapshot-"
SnapshotStr == <<115, 110, 97, 112, 115, 104, 111, 116, 45>>
\* ".png"
PngStr == <<46, 112, 110, 103>>

\* None
None == <<>>

\* pathlib's a / b
Join(a, b) == a \o <<47>> \o b

\* Python's str order: by code point, a proper prefix first.
StrLess(a, b) ==
    \E k \in 0..(Len(b) - 1) :
        /\ k <= Len(a)
        /\ \A j \in 1..k : a[j] = b[j]
        /\ (k = Len(a) \/ a[k + 1] < b[k + 1])

\* sorted(S) for a set of strings
RECURSIVE sorted(_)
sorted(S) ==
    IF S = {} THEN <<>>
    ELSE LET m == CHOOSE x \in S : \A y \in S : y = x \/ StrLess(x, y)
         IN <<m>> \o sorted(S \ {m})

\* A call's outcome: a returned path, or the exception raised.
Ok(p) == [ok |-> TRUE, path |-> p, err |-> ""]
Raise(e) == [ok |-> FALSE, path |-> None, err |-> e]

\* glob(dir / "*") over a directory's entries: every entry, file or
\* directory, whose name does not start with "."
glob(entries) == {e \in entries : e.name[1] # 46}

\* ------------------------------------------------- get_last_output_path
get_last_output_path(root) ==
    LET folders == sorted({Join(SearchPath, e.name) : e \in glob(root)})
    IN IF Len(folders) = 0 THEN Raise("ValueError")
       ELSE Ok(folders[Len(folders)])

\* --------------------------------------------------- get_all_iterations
\* int(s) of a string of decimal digits
RECURSIVE int(_)
int(s) ==
    IF Len(s) = 0 THEN 0
    ELSE 10 * int(SubSeq(s, 1, Len(s) - 1)) + (s[Len(s)] - 48)

\* str(n) of n >= 0
RECURSIVE str(_)
str(n) == IF n < 10 THEN <<48 + n>> ELSE str(n \div 10) \o <<48 + (n % 10)>>

\* "{:020}".format(n) of n >= 0: zeros on the left up to PadWidth, never cut
RECURSIVE ZeroFill(_, _)
ZeroFill(s, w) == IF Len(s) >= w THEN s ELSE ZeroFill(<<48>> \o s, w)

format020(n) == ZeroFill(str(n), PadWidth)

\* np.sort of the list [int(name) for name in names]: one element per
\* name, equal elements kept
RECURSIVE np_sort(_)
np_sort(names) ==
    IF names = {} THEN <<>>
    ELSE LET m == CHOOSE x \in names : \A y \in names : int(x) <= int(y)
         IN <<int(m)>> \o np_sort(names \ {m})

\* the names under <dir>/cells/json; a path that is no directory of the
\* search directory has none
listing(root, dir, names) ==
    IF \E e \in root : e.isDir /\ Join(SearchPath, e.name) = dir
    THEN names ELSE {}

Listed(its) == [ok |-> TRUE, its |-> its, err |-> ""]
NotListed(e) == [ok |-> FALSE, its |-> <<>>, err |-> e]

get_all_iterations(root, names, out) ==
    LET lo == IF out = None THEN get_last_output_path(root) ELSE Ok(out)
        folders == glob({[name |-> n] : n \in listing(root, lo.path, names)})
    IN IF ~lo.ok THEN NotListed(lo.err)
       ELSE Listed(np_sort({f.name : f \in folders}))

\* ------------------------------------------------------------ load_cells
\* load_cells reads <output_path>/cells/json/<iteration as {:020}>/*.json,
\* whatever name the iteration was listed under; with no shard there the
\* column lookup on the empty frame raises.
load_cells(root, names, bad, iteration, out) ==
    LET d == format020(iteration)
    IN IF d \in listing(root, out, names) /\ d \notin bad
       THEN Ok(out) ELSE Raise("KeyError")

\* ------------------------------------------------------------ plot_cells
\* Numbers of plot_cells are rationals <<numerator, denominator>> in
\* lowest terms, denominator > 0.
RECURSIVE Gcd(_, _)
Gcd(a, b) == IF b = 0 THEN a ELSE Gcd(b, a % b)

Abs(n) == IF n < 0 THEN -n ELSE n

Rat(n, d) ==
    LET g == Gcd(Abs(n), Abs(d))
        s == IF d < 0 THEN -1 ELSE 1
    IN <<(s * n) \div g, (s * d) \div g>>

RAdd(x, y) == Rat(x[1] * y[2] + y[1] * x[2], x[2] * y[2])
RSub(x, y) == Rat(x[1] * y[2] - y[1] * x[2], x[2] * y[2])
RMul(x, y) == Rat(x[1] * y[1], x[2] * y[2])
RDiv(x, y) == Rat(x[1] * y[2], x[2] * y[1])
RLess(x, y) == x[1] * y[2] < y[1] * x[2]

\* mpl.colormaps['viridis'].resampled(255), applied to x: the colour is
\* whatever the colormap gives at x
viridis(x) == [cmap |-> "viridis", at |-> x]

\* the threshold of plot_cells
thresh_at_low(intra_low, intra_high) == intra_low

thresh(intra_low, intra_high) ==
    RAdd(intra_low, RMul(Rat(1, 2), RSub(intra_high, intra_low)))

\* the facecolor plot_cells gives a cell whose intracellular[2] is t
facecolor(t, intra_low, intra_high) ==
    IF RLess(t, thresh(intra_low, intra_high))
    THEN viridis(Rat(0, 1))
    ELSE viridis(RDiv(RSub(t, intra_low), RSub(intra_high, intra_low)))

\* ------------------------------------------------------------- state
VARIABLES
    searchRoot,  \* entries of the search directory: [name, isDir]
    jsonDir,     \* names of the directories under <run>/cells/json
    badDirs,     \* those among them that hold no usable shard
    dirs,        \* the save directories that exist, by path
    files,       \* snapshot files: path -> modification marker
    call,        \* per process: the plot_cells_at_iter call it is in
    log,         \* history: the main process's finished calls, in order
    hist,        \* history of the pool: did results arrive out of order,
                 \* did one call find the directory another had just made
    driver,      \* plot_cells_at_all_iterations: position and parameters
    output_path, \* its local output_path
    iterations,  \* its local iterations
    arguments,   \* its local arguments
    taskNext,    \* Pool: index of the next task to hand to a worker
    outcome,     \* Pool.imap: per task, the result a worker sent back
    result,      \* the list being built from the imap iterator
    lastOut,     \* what a direct get_last_output_path call gave
    iterOut,     \* what a direct get_all_iterations call gave
    intra,       \* plot_cells: <<intra_low, intra_high>>
    table,       \* plot_cells: intracellular[2] of each row of df_cells
    patches      \* plot_cells: facecolor of each patch added to ax

vars == <<searchRoot, jsonDir, badDirs, dirs, files, call, log, hist, driver,
          output_path, iterations, arguments, taskNext, outcome, result,
          lastOut, iterOut, intra, table, patches>>

fsVars == <<searchRoot, jsonDir, badDirs>>
poolVars == <<driver, output_path, iterations, arguments, taskNext, result>>
queryVars == <<lastOut, iterOut>>
plotVars == <<intra, table, patches>>

\* The main process, and the pool's workers.
Main == 0
Workers == 1..NumWorkers
Procs == {Main} \cup Workers

Pending == [ok |-> FALSE, path |-> None, err |-> "pending"]
NotCalled == [ok |-> FALSE, path |-> None, err |-> "not called"]
Idle == [pc |-> "idle"]

\* ----------------------------------------------------- plot_cells_at_iter
\* save_path.mkdir(parents=True, exist_ok=True): os.mkdir either makes the
\* directory or fails because it exists; exist_ok decides whether that
\* failure is raised.
mkdir_exist_not_ok(ds, d, exist_ok) ==
    IF d \notin ds THEN [dirs |-> ds \cup {d}, err |-> ""]
    ELSE [dirs |-> ds, err |-> "FileExistsError"]

mkdir(ds, d, exist_ok) ==
    IF d \notin ds THEN [dirs |-> ds \cup {d}, err |-> ""]
    ELSE IF exist_ok THEN [dirs |-> ds, err |-> ""]
    ELSE [dirs |-> ds, err |-> "FileExistsError"]

\* save_path / "snapshot-{:020}.png".format(iteration)
snapshot_path(save_dir, iteration) ==
    Join(save_dir, SnapshotStr \o format020(iteration) \o PngStr)

\* if save_path.exists() and overwrite is False: return save_path
short_circuit_inverted(exists, overwrite) == exists /\ overwrite = TRUE
short_circuit_any(exists, overwrite) == exists
short_circuit_or(exists, overwrite) == exists \/ overwrite = FALSE

short_circuit(exists, overwrite) == exists /\ overwrite = FALSE

\* A call ends: a worker sends the result back to the pool, the main
\* process gets it.
Finish(p, c, res) ==
    /\ call' = [call EXCEPT ![p] = Idle]
    /\ IF p = Main
       THEN /\ log' = Append(log, [iteration |-> c.iteration, overwrite |-> c.overwrite,
                                   target |-> c.target, existed |-> c.existed,
                                   loaded |-> c.loaded, wrote |-> c.wrote,
                                   before |-> c.before, after |-> c.after,
                                   res |-> res])
            /\ UNCHANGED outcome
            /\ hist' = [hist EXCEPT !.raced = @ \/ c.raced]
       ELSE /\ outcome' = [outcome EXCEPT ![c.idx] = res]
            /\ hist' = [reordered |-> hist.reordered
                                      \/ \E i \in 1..(c.idx - 1) : outcome[i] = Pending,
                        raced |-> hist.raced \/ c.raced]
            /\ UNCHANGED log

\* A call starts with the arguments of job j.
Enter(p, j, idx) ==
    call' = [call EXCEPT ![p] =
        [pc |-> "mkdir", idx |-> idx, iteration |-> j.iteration,
         intra_low |-> j.intra_low, intra_high |-> j.intra_high,
         output_path |-> j.output_path, save_path |-> j.save_path,
         overwrite |-> j.overwrite, transparent |-> j.transparent,
         target |-> None, made |-> FALSE, raced |-> FALSE,
         existed |-> FALSE, loaded |-> FALSE, wrote |-> FALSE,
         before |-> 0, after |-> 0]]

\* lines 143-148: resolve the defaults, make the directory, name the file
Mkdir(p) ==
    /\ call[p].pc = "mkdir"
    /\ LET c == call[p]
           lo == IF c.output_path = None THEN get_last_output_path(searchRoot)
                 ELSE Ok(c.output_path)
           sd == IF c.save_path = None THEN Join(lo.path, ImagesStr)
                 ELSE c.save_path
           md == mkdir(dirs, sd, TRUE)
       IN IF ~lo.ok
          THEN Finish(p, c, lo) /\ UNCHANGED dirs
          ELSE IF md.err # ""
          THEN Finish(p, c, Raise(md.err)) /\ UNCHANGED dirs
          ELSE /\ dirs' = md.dirs
               /\ call' = [call EXCEPT ![p] =
                    [c EXCEPT !.pc = "exists", !.output_path = lo.path,
                              !.target = snapshot_path(sd, c.iteration),
                              !.made = (sd \notin dirs),
                              !.raced = /\ sd \in dirs
                                        /\ \E q \in Procs \ {p} :
                                              /\ call[q].pc \in {"exists", "savefig"}
                                              /\ call[q].made]]
               /\ UNCHANGED <<log, hist, outcome>>
    /\ UNCHANGED <<fsVars, files, poolVars, queryVars, plotVars>>

\* lines 149-151: the existence check, then load_cells
Load(p) ==
    /\ call[p].pc = "exists"
    /\ LET exists == call[p].target \in DOMAIN files
           mark == IF exists THEN files[call[p].target] ELSE 0
           c == [call[p] EXCEPT !.existed = exists, !.before = mark, !.after = mark]
           ld == load_cells(searchRoot, jsonDir, badDirs, c.iteration, c.output_path)
       IN IF short_circuit(exists, c.overwrite)
          THEN Finish(p, c, Ok(c.target))
          ELSE IF ~ld.ok
          THEN Finish(p, [c EXCEPT !.loaded = TRUE], ld)
          ELSE /\ call' = [call EXCEPT ![p] = [c EXCEPT !.pc = "savefig", !.loaded = TRUE]]
               /\ UNCHANGED <<log, hist, outcome>>
    /\ UNCHANGED <<fsVars, dirs, files, poolVars, queryVars, plotVars>>

\* lines 153-161: draw the figure and write it; the file's modification
\* marker moves on
SaveFig(p) ==
    /\ call[p].pc = "savefig"
    /\ LET c == call[p]
           mark == IF c.target \in DOMAIN files THEN files[c.target] ELSE 0
       IN /\ files' = [f \in DOMAIN files \cup {c.target} |->
                          IF f = c.target THEN mark + 1 ELSE files[f]]
          /\ Finish(p, [c EXCEPT !.wrote = TRUE, !.after = mark + 1], Ok(c.target))
    /\ UNCHANGED <<fsVars, dirs, poolVars, queryVars, plotVars>>

\* ------------------------------------------ plot_cells_at_all_iterations
\* one element of the list `arguments`
Job(it, d, out) ==
    [iteration |-> it, intra_low |-> d.intra_min, intra_high |-> d.intra_max,
     output_path |-> out, save_path |-> d.save_path,
     overwrite |-> d.overwrite, transparent |-> d.transparent]

\* Pool.imap's iterator: the results come out in the order of the tasks,
\* each once it is there. imap_unordered gives any result that is there.
imap_unordered_next(outc, taken) ==
    {i \in DOMAIN outc : outc[i] # Pending /\ \A k \in 1..Len(taken) : taken[k] # i}

imap_next(outc, taken) ==
    {i \in DOMAIN outc : outc[i] # Pending /\ i = Len(taken) + 1}

\* lines 177-190, up to the tasks being handed to the pool
PlotAll ==
    /\ driver.pc = "start"
    /\ LET lo == IF driver.output_path = None THEN get_last_output_path(searchRoot)
                 ELSE Ok(driver.output_path)
           li == get_all_iterations(searchRoot, jsonDir, lo.path)
       IN IF ~lo.ok
          THEN /\ driver' = [driver EXCEPT !.pc = "raised", !.err = lo.err]
               /\ UNCHANGED <<output_path, iterations, arguments, taskNext, outcome, result>>
          ELSE /\ output_path' = lo.path
               /\ iterations' = li.its
               /\ arguments' = [i \in 1..Len(li.its) |-> Job(li.its[i], driver, lo.path)]
               /\ outcome' = [i \in 1..Len(li.its) |-> Pending]
               /\ taskNext' = 1
               /\ result' = <<>>
               /\ driver' = [driver EXCEPT !.pc = "gather"]
    /\ UNCHANGED <<fsVars, dirs, files, call, log, hist, queryVars, plotVars>>

\* a worker of the pool takes the next task: __plotting_helper
Take(w) ==
    /\ call[w].pc = "idle"
    /\ taskNext <= Len(arguments)
    /\ Enter(w, arguments[taskNext], taskNext)
    /\ taskNext' = taskNext + 1
    /\ UNCHANGED <<fsVars, dirs, files, log, hist, driver, output_path, iterations,
                   arguments, outcome, result, queryVars, plotVars>>

\* line 190: list(...) draws the next result from the imap iterator; a
\* task's exception is raised again here
Gather ==
    /\ driver.pc = "gather"
    /\ \E i \in imap_next(outcome, driver.taken) :
         IF outcome[i].ok
         THEN /\ result' = Append(result, outcome[i].path)
              /\ driver' = [driver EXCEPT !.taken = Append(@, i)]
         ELSE /\ driver' = [driver EXCEPT !.pc = "raised", !.err = outcome[i].err]
              /\ UNCHANGED result
    /\ UNCHANGED <<fsVars, dirs, files, call, log, hist, output_path, iterations,
                   arguments, taskNext, outcome, queryVars, plotVars>>

\* line 190: the iterator is exhausted, the list is returned
Return ==
    /\ driver.pc = "gather"
    /\ Len(driver.taken) = Len(arguments)
    /\ driver' = [driver EXCEPT !.pc = "returned"]
    /\ UNCHANGED <<fsVars, dirs, files, call, log, hist, output_path, iterations,
                   arguments, taskNext, outcome, result, queryVars, plotVars>>

\* --------------------------------------------------------- plot_cells
\* line 98-104: the next row of df_cells becomes a patch of ax
PlotCell ==
    /\ Len(patches) < Len(table)
    /\ patches' = Append(patches,
                         facecolor(Rat(table[Len(patches) + 1], 10),
                                   Rat(intra[1], 1), Rat(intra[2], 1)))
    /\ UNCHANGED <<fsVars, dirs, files, call, log, hist, poolVars, outcome,
                   queryVars, intra, table>>

\* ------------------------------------------------------- direct calls
\* the main process calls plot_cells_at_iter, one call after the other
CallPlot ==
    /\ call[Main].pc = "idle"
    /\ Len(log) < MaxCalls
    /\ \E it \in 1..MaxIter, ow \in BOOLEAN :
          Enter(Main, [iteration |-> it, intra_low |-> driver.intra_min,
                       intra_high |-> driver.intra_max, output_path |-> None,
                       save_path |-> driver.save_path, overwrite |-> ow,
                       transparent |-> FALSE], 0)
    /\ UNCHANGED <<fsVars, dirs, files, log, hist, poolVars, outcome,
                   queryVars, plotVars>>

\* the main process calls get_last_output_path()
CallLast ==
    /\ lastOut = NotCalled
    /\ lastOut' = get_last_output_path(searchRoot)
    /\ UNCHANGED <<fsVars, dirs, files, call, log, hist, poolVars, outcome,
                   iterOut, plotVars>>

\* the main process calls get_all_iterations()
CallIterations ==
    /\ iterOut = NotListed("not called")
    /\ iterOut' = get_all_iterations(searchRoot, jsonDir, None)
    /\ UNCHANGED <<fsVars, dirs, files, call, log, hist, poolVars, outcome,
                   lastOut, plotVars>>

\* ------------------------------------------------------ initial states
Dir(name) == [name |-> name, isDir |-> TRUE]
File(name) == [name |-> name, isDir |-> FALSE]

\* Names a directory under cells/json may have: an iteration as the
\* simulation writes it, or the same number written without padding.
PaddedNames == {format020(n) : n \in 1..MaxIter}
DirNames == PaddedNames \cup {str(n) : n \in 1..MaxAlias}

\* Search directories of a batch: empty; a run and a later plain file;
\* two runs.
BatchRoots ==
    {{}, {Dir(<<49>>), File(<<50>>)}, {Dir(<<49>>), Dir(<<50>>)}}

\* The search directory of a session of direct calls: two runs.
SessionRoots == {{Dir(<<49>>), Dir(<<50>>)}}

\* Strings of "1" and "2" (of "0" and "1") up to MaxNameLen long.
RECURSIVE Strings(_, _)
Strings(alphabet, n) ==
    IF n = 0 THEN {<<>>}
    ELSE LET shorter == Strings(alphabet, n - 1)
         IN shorter \cup {Append(s, a) : s \in shorter, a \in alphabet}

RunNames == Strings({49, 50}, MaxNameLen) \ {<<>>}
ShortNames == Strings({48, 49}, MaxNameLen) \ {<<>>}

\* Search directories of up to MaxEntries entries, files or directories,
\* no name twice.
AnyRoots ==
    {R \in SUBSET {[name |-> n, isDir |-> d] : n \in RunNames, d \in BOOLEAN} :
        /\ Cardinality(R) <= MaxEntries
        /\ \A e, f \in R : e.name = f.name => e = f}

\* the save directory a call makes when save_path is not given
DefaultSaveDirs(root) ==
    LET lo == get_last_output_path(root)
    IN IF lo.ok /\ (\E e \in root : e.isDir /\ Join(SearchPath, e.name) = lo.path)
       THEN {Join(lo.path, ImagesStr)} ELSE {}

InitFs(roots, names, saveDirs) ==
    /\ searchRoot \in roots
    /\ jsonDir \in {S \in SUBSET names : Cardinality(S) <= MaxDirs}
    /\ badDirs \in {B \in SUBSET jsonDir : Cardinality(B) <= MaxBad
                                          /\ \A b \in B : Len(b) = PadWidth}
    /\ dirs \in {{}} \cup {{d} : d \in DefaultSaveDirs(searchRoot) \cap saveDirs}
                     \cup {{d} : d \in saveDirs \cap {FramesStr}}
    /\ \E P \in SUBSET {snapshot_path(d, n) : d \in dirs, n \in 1..MaxIter} :
          /\ Cardinality(P) <= MaxPre
          /\ files = [f \in P |-> 1]

InitCalls ==
    /\ call = [p \in Procs |-> Idle]
    /\ log = <<>>
    /\ hist = [reordered |-> FALSE, raced |-> FALSE]

InitPool ==
    /\ output_path = None
    /\ iterations = <<>>
    /\ arguments = <<>>
    /\ taskNext = 1
    /\ outcome = <<>>
    /\ result = <<>>

InitQuery ==
    /\ lastOut = NotCalled
    /\ iterOut = NotListed("not called")

InitPlot ==
    /\ intra = <<0, 4>>
    /\ table = <<>>
    /\ patches = <<>>

DriverAt(pc, save_path, overwrite) ==
    [pc |-> pc, intra_min |-> Rat(0, 1), intra_max |-> Rat(4, 1),
     output_path |-> None, save_path |-> save_path, overwrite |-> overwrite,
     transparent |-> TRUE, err |-> "", taken |-> <<>>]

\* ------------------------------- the batch: plot_cells_at_all_iterations
Init ==
    /\ InitFs(BatchRoots, DirNames, {Join(Join(SearchPath, n), ImagesStr) : n \in RunNames})
    /\ InitCalls /\ InitPool /\ InitQuery /\ InitPlot
    /\ \E ow \in BOOLEAN : driver = DriverAt("start", None, ow)

Next ==
    \/ PlotAll
    \/ \E w \in Workers : Take(w)
    \/ \E w \in Workers : Mkdir(w)
    \/ \E w \in Workers : Load(w)
    \/ \E w \in Workers : SaveFig(w)
    \/ Gather
    \/ Return

Spec == Init /\ [][Next]_vars

\* ------------------------ a session of direct plot_cells_at_iter calls
InitSession ==
    /\ \E sp \in {None, FramesStr} :
          /\ driver = DriverAt("idle", sp, FALSE)
          /\ InitFs(SessionRoots, PaddedNames,
                    IF sp = None
                    THEN {Join(Join(SearchPath, n), ImagesStr) : n \in RunNames}
                    ELSE {sp})
    /\ InitCalls /\ InitPool /\ InitQuery /\ InitPlot

NextSession ==
    \/ CallPlot
    \/ Mkdir(Main)
    \/ Load(Main)
    \/ SaveFig(Main)

SpecSession == InitSession /\ [][NextSession]_vars

\* ------------- direct calls of get_last_output_path, get_all_iterations
InitResolve ==
    /\ searchRoot \in AnyRoots
    /\ jsonDir \in {S \in SUBSET ShortNames : Cardinality(S) <= MaxDirs}
    /\ badDirs = {}
    /\ dirs = {}
    /\ files = <<>>
    /\ driver = DriverAt("idle", None, FALSE)
    /\ InitCalls /\ InitPool /\ InitQuery /\ InitPlot

NextResolve ==
    \/ CallLast
    \/ CallIterations

SpecResolve == InitResolve /\ [][NextResolve]_vars

\* ------------------------------------------------ a call of plot_cells
\* Colour scales of a call, in whole units; intracellular[2] in tenths.
Scales == {<<0, 4>>, <<1, 4>>, <<1, 3>>}

RECURSIVE Tables(_)
Tables(n) ==
    IF n = 0 THEN {<<>>}
    ELSE LET shorter == Tables(n - 1)
         IN shorter \cup {Append(s, t) : s \in shorter, t \in 0..MaxT}

InitColor ==
    /\ searchRoot = {}
    /\ jsonDir = {}
    /\ badDirs = {}
    /\ dirs = {}
    /\ files = <<>>
    /\ driver = DriverAt("idle", None, FALSE)
    /\ InitCalls /\ InitPool /\ InitQuery
    /\ intra \in Scales
    /\ table \in Tables(MaxCells)
    /\ patches = <<>>

NextColor == PlotCell

SpecColor == InitColor /\ [][NextColor]_vars

\* ================================================================ claims

\* the directory the batch's snapshots go to
BatchSaveDir ==
    IF driver.save_path = None THEN Join(output_path, ImagesStr)
    ELSE driver.save_path

\* C1: two plot_cells_at_iter calls in a row for the same iteration, both
\* with overwrite=False, the first of which returned: the second returns
\* the same path, calls neither load_cells nor savefig and leaves the
\* file's modification marker alone; the two calls together wrote the file
\* once if it was absent before the first, and not at all if it was there.
C1_Idempotent ==
    \A i \in 1..(Len(log) - 1) :
        LET a == log[i]
            b == log[i + 1]
        IN (/\ a.iteration = b.iteration
            /\ a.overwrite = FALSE /\ b.overwrite = FALSE
            /\ a.res.ok)
           => /\ b.res = a.res
              /\ ~b.loaded /\ ~b.wrote
              /\ b.existed /\ b.after = a.after
              /\ a.wrote = ~a.existed
              /\ a.res.path \in DOMAIN files /\ files[a.res.path] >= a.after

C1_Witness ==
    \E i \in 1..(Len(log) - 1) :
        /\ log[i].iteration = log[i + 1].iteration
        /\ log[i].overwrite = FALSE /\ log[i + 1].overwrite = FALSE
        /\ log[i].res.ok /\ log[i].wrote /\ log[i].loaded
        /\ log[i + 1].res.ok

\* C2: at every moment of a batch the list gathered so far holds, at
\* position i, the snapshot path of the i-th element of the iterations,
\* which are in ascending order; a returned batch holds all of them,
\* whatever the order the workers finished in.
C2_BatchOrdered ==
    /\ \A i \in 1..Len(result) :
          /\ i <= Len(iterations)
          /\ result[i] = snapshot_path(BatchSaveDir, iterations[i])
    /\ \A i, j \in 1..Len(iterations) : i < j => iterations[i] <= iterations[j]
    /\ driver.pc = "returned" => Len(result) = Len(iterations)

C2_Witness ==
    /\ driver.pc = "returned"
    /\ hist.reordered
    /\ Len(result) >= 2
    /\ result[1] # result[2]

\* C3: once a batch in which a render failed is over, it has returned a
\* result with an entry for every iteration (the directories under
\* cells/json named as the simulation names them).
C3_FailureInBatchResult ==
    (/\ driver.pc \in {"returned", "raised"}
     /\ jsonDir \subseteq PaddedNames
     /\ \E i \in DOMAIN outcome : outcome[i] # Pending /\ ~outcome[i].ok)
    => /\ driver.pc = "returned"
       /\ Len(result) = Len(iterations)

\* C4: no two workers of a batch are writing the same snapshot file at
\* the same time.
C4_DistinctTargets ==
    \A p, q \in Workers :
        (/\ p # q
         /\ call[p].pc = "savefig"
         /\ call[q].pc = "savefig")
        => call[p].target # call[q].target

\* C5: no job of a batch ends in a directory-exists error, whichever
\* worker makes the directory first; a job fails only if load_cells fails
\* for its iteration, and the file of every job that returned is there.
C5_ConcurrentMkdir ==
    /\ driver.err # "FileExistsError"
    /\ \A i \in DOMAIN outcome :
          /\ outcome[i].err # "FileExistsError"
          /\ outcome[i].ok => outcome[i].path \in DOMAIN files
          /\ (outcome[i] # Pending /\ ~outcome[i].ok)
             => ~load_cells(searchRoot, jsonDir, badDirs, iterations[i], output_path).ok

C5_Witness ==
    /\ hist.raced
    /\ \E i, j \in DOMAIN outcome :
          /\ outcome[i].ok /\ outcome[j].ok
          /\ outcome[i].path # outcome[j].path
          /\ files[outcome[i].path] = 1 /\ files[outcome[j].path] = 1

\* C6: get_all_iterations gives a strictly ascending sequence whose
\* elements are exactly the numbers the names under cells/json parse to.
C6_StrictlyAscending ==
    iterOut.ok =>
        LET its == iterOut.its
            names == listing(searchRoot, get_last_output_path(searchRoot).path, jsonDir)
        IN /\ \A i, j \in 1..Len(its) : i < j => its[i] < its[j]
           /\ {its[i] : i \in 1..Len(its)} = {int(n) : n \in names}

\* C7: get_last_output_path gives the subdirectory of the search directory
\* whose name is last in lexicographic order, and raises when the search
\* directory is empty.
C7_LatestRun ==
    lastOut # NotCalled =>
        LET subdirs == {e.name : e \in {f \in searchRoot : f.isDir}}
        IN /\ subdirs # {} =>
                /\ lastOut.ok
                /\ \E n \in subdirs :
                      /\ lastOut.path = Join(SearchPath, n)
                      /\ \A m \in subdirs : m = n \/ StrLess(m, n)
           /\ searchRoot = {} => lastOut = Raise("ValueError")

\* C8: a plot_cells_at_iter call with overwrite=True calls load_cells
\* whether or not the file was there, and when it returns it has written
\* the file: the modification marker is one past what it was.
C8_Overwrite ==
    \A i \in 1..Len(log) :
        log[i].overwrite = TRUE =>
            /\ log[i].loaded
            /\ log[i].res.ok =>
                  /\ log[i].wrote
                  /\ log[i].after = log[i].before + 1
                  /\ log[i].res.path \in DOMAIN files
                  /\ files[log[i].res.path] >= log[i].after

C8_Witness ==
    \E i \in 1..Len(log) :
        /\ log[i].overwrite = TRUE
        /\ log[i].existed
        /\ log[i].res.ok /\ log[i].wrote
        /\ log[i].after = log[i].before + 1

\* C9: a cell whose value t is below intra_low + (intra_high-intra_low)/2
\* gets the colormap's colour at 0, any other cell the colour at
\* (t - intra_low)/(intra_high - intra_low); with the scale 0..4 that is
\* the colour at 0 for t = 1.9, at 1/2 for t = 2.0 and at 1 for t = 4.0.
\* (t is in tenths, the scale in whole units.)
C9_ThresholdColoring ==
    \A k \in 1..Len(patches) :
        LET t == table[k]
            lo == 10 * intra[1]
            hi == 10 * intra[2]
            c == patches[k]
        IN /\ c.cmap = "viridis"
           /\ c.at[2] > 0
           /\ IF 2 * t < lo + hi
              THEN c.at[1] = 0
              ELSE c.at[1] * (hi - lo) = (t - lo) * c.at[2]
           /\ (intra = <<0, 4>> /\ t = 19) => c.at = <<0, 1>>
           /\ (intra = <<0, 4>> /\ t = 20) => c.at = <<1, 2>>
           /\ (intra = <<0, 4>> /\ t = 40) => c.at = <<1, 1>>

C9_Witness ==
    /\ intra = <<0, 4>>
    /\ table = <<19, 40>>
    /\ Len(patches) = 2
    /\ patches[1] = viridis(<<0, 1>>)
    /\ patches[2] = viridis(<<1, 1>>)

\* C10: a batch that has returned gave one entry per directory listed
\* under cells/json of the run the driver resolved, handed that run to
\* every job, and left the snapshot file of every listed iteration in the
\* save directory; no call of a worker works on another run.
C10_BatchPostcondition ==
    /\ \A w \in Workers :
          call[w].pc \in {"exists", "savefig"} => call[w].output_path = output_path
    /\ driver.pc = "returned" =>
          /\ output_path = get_last_output_path(searchRoot).path
          /\ Len(iterations) = Cardinality(listing(searchRoot, output_path, jsonDir))
          /\ Len(result) = Len(iterations)
          /\ \A i \in 1..Len(arguments) :
                /\ arguments[i].output_path = output_path
                /\ arguments[i].iteration = iterations[i]
          /\ \A i \in 1..Len(iterations) :
                snapshot_path(BatchSaveDir, iterations[i]) \in DOMAIN files

C10_Witness ==
    /\ driver.pc = "returned"
    /\ Len(result) >= 2
    /\ \E i, j \in 1..Len(result) : files[result[i]] = 1 /\ files[result[j]] = 2

====
